---- MODULE Spec2Model ----
(***************************************************************************)
(* Model of src/main.rs: a one-shot reporter that reads GPU telemetry,     *)
(* host telemetry, and two weather endpoints, printing to standard output. *)
(*                                                                         *)
(* The state is main's position (pc), the lines written to standard output *)
(* (out), main's live locals, the host's uptime clock, and the HTTP        *)
(* requests issued and in flight.  Every printed line is a record          *)
(*   [sec, tag, city, args]                                                *)
(* where tag is the literal prefix of the println! format string, args the *)
(* integer arguments the model tracks, and sec / city are ghost fields     *)
(* naming the section of main and the index of the city in                 *)
(* response.value that printed the line.  Text fields of the telemetry and *)
(* of the JSON payload are passed through verbatim by the program and are  *)
(* not tracked.                                                            *)
(*                                                                         *)
(* Environment: the GPU driver, the host clock, the network and the remote *)
(* servers are nondeterministic.  Writing to standard output and creating  *)
(* the tokio runtime and the reqwest client are taken to succeed.          *)
(***************************************************************************)
EXTENDS Integers, Sequences, FiniteSets, TLC

VARIABLES
    pc,           \* position of main
    out,          \* lines printed to standard output, in order
    nvml_calls,   \* NVML sub-queries made by get_gpu_info, with their outcome
    gpu_result,   \* the scrutinee of main's match on get_gpu_info()
    clock,        \* the host's uptime clock, in seconds (System::uptime())
    system_info,  \* main's local system_info (uptime and number of disks)
    requests,     \* endpoints for which a GET has been sent, in order
    inflight,     \* endpoints whose GET is sent and not yet answered
    response,     \* what send().await returned in the current async block
    body,         \* what response.text().await returned in the current async block
    api_response  \* the parsed ApiResponse of the city-weather request

vars == <<pc, out, nvml_calls, gpu_result, clock, system_info,
          requests, inflight, response, body, api_response>>

----------------------------------------------------------------------------
(* Bounds of the model.                                                    *)

MaxDisks == 1      \* mounted volumes enumerated
MaxCities == 2     \* elements of response.value
MaxBlocks == 2     \* alarms + indexes + weathers over the whole response
MaxSeconds == 180122   \* largest uptime fed to convert_seconds

\* Uptimes at which the host snapshot may be taken in a full run.
BootUptimes == {59, 90061}

\* Seconds the clock may advance during get_system_info beyond its sleep.
ClockDrifts == {0, 1}

\* HTTP status codes a server may answer with.
StatusCodes == {200, 299, 300, 404}

None == [none |-> TRUE]

----------------------------------------------------------------------------
(* Printed lines.                                                          *)

Line(sec, tag, city, args) == [sec |-> sec, tag |-> tag, city |-> city, args |-> args]

RECURSIVE Repeat(_, _)
\* `block` printed once per element of a list of length n
Repeat(block, n) == IF n = 0 THEN <<>> ELSE block \o Repeat(block, n - 1)

Separator == "------------------------"

----------------------------------------------------------------------------
(* get_gpu_info                                                            *)

GpuQueries == <<"init", "device_by_index", "enforced_power_limit", "memory_info",
                "power_usage", "temperature", "clock_graphics", "clock_memory",
                "name", "num_cores", "memory_bus_width">>

GpuFieldTags == <<"GPU Name:", "Number of Cores:", "Memory Bus Width:",
                  "GPU Core Clocks:", "GPU Memory Clock:", "GPU Temperature:",
                  "Power Usage:", "Power Limit:", "Memory Used:", "Memory Total:">>

\* The driver: whether each sub-query would succeed if it were made.
Drivers == [1..Len(GpuQueries) -> BOOLEAN]

RECURSIVE QueriesFrom(_, _)
\* The calls made from sub-query i on: each `?` returns at the first failure.
QueriesFrom(driver, i) ==
    IF i > Len(GpuQueries) THEN <<>>
    ELSE IF ~driver[i] THEN <<[query |-> GpuQueries[i], ok |-> FALSE]>>
    ELSE <<[query |-> GpuQueries[i], ok |-> TRUE]>> \o QueriesFrom(driver, i + 1)

\* Faulty variant: only a failed init is treated as an error.
get_gpu_info_partial(calls) ==
    IF calls # <<>> /\ ~calls[1].ok
        THEN [ok |-> FALSE, err |-> calls[1].query]
        ELSE [ok |-> TRUE, err |-> "none"]

\* Ok(GpuInfo) when every sub-query succeeded, else the first error.
get_gpu_info(calls) ==
    IF \E i \in 1..Len(calls) : ~calls[i].ok
        THEN [ok |-> FALSE, err |-> calls[Len(calls)].query]
        ELSE [ok |-> TRUE, err |-> "none"]

GpuFieldLines == [i \in 1..Len(GpuFieldTags) |-> Line("gpu", GpuFieldTags[i], 0, <<>>)]

\* main's match on the result (lines 267-281)
MatchGpuLines(res) ==
    IF res.ok THEN GpuFieldLines ELSE <<Line("gpu", "Error:", 0, <<>>)>>

\* Faulty variant: the result is unwrapped instead of matched.
MatchGpuNextUnwrap(res) == IF res.ok THEN "system_call" ELSE "panicked"

\* Both arms of the match fall through to line 283.
MatchGpuNext(res) == "system_call"

CallGetGpuInfo ==
    /\ pc = "gpu_call"
    /\ \E driver \in Drivers :
          /\ nvml_calls' = QueriesFrom(driver, 1)
          /\ gpu_result' = get_gpu_info(nvml_calls')
    /\ pc' = "gpu_match"
    /\ UNCHANGED <<out, clock, system_info, requests, inflight, response, body, api_response>>

MatchGpu ==
    /\ pc = "gpu_match"
    /\ out' = out \o MatchGpuLines(gpu_result)
    /\ nvml_calls' = <<>>
    /\ gpu_result' = None
    /\ pc' = MatchGpuNext(gpu_result)
    /\ UNCHANGED <<clock, system_info, requests, inflight, response, body, api_response>>

----------------------------------------------------------------------------
(* get_system_info, convert_seconds and the system / disks blocks          *)

SleepSecs == 1     \* thread::sleep(Duration::from_secs(1)), line 211

\* Faulty variant: the hours are not reduced modulo 24.
convert_seconds_no_wrap(seconds) ==
    <<seconds \div (24 * 3600), seconds \div 3600, (seconds \div 60) % 60, seconds % 60>>

\* (days, hours, minutes, remaining_seconds)
convert_seconds(seconds) ==
    <<seconds \div (24 * 3600), (seconds \div 3600) % 24, (seconds \div 60) % 60, seconds % 60>>

SystemTags == <<"=> system:", "Total Memory:", "Used Memory:", "Total Swap:",
                "Used Swap:", "System Name:", "Kernel Version:", "OS Version:",
                "Host Name:">>

\* The uptime is captured before the sleep; the clock runs on during it.
CallGetSystemInfo ==
    /\ pc = "system_call"
    /\ \E n \in 0..MaxDisks, d \in ClockDrifts :
          /\ system_info' = [uptime |-> clock, disks |-> n]
          /\ clock' = clock + SleepSecs + d
    /\ pc' = "system_print"
    /\ UNCHANGED <<out, nvml_calls, gpu_result, requests, inflight, response, body, api_response>>

\* Line 295: the seconds printed are a fresh System::uptime() reading, the
\* decomposition is that of the snapshot's uptime.
UptimeLine(info, now) ==
    Line("system", "Uptime", 0, <<now>> \o convert_seconds(info.uptime))

\* Faulty variant: the disks header is printed inside the system block.
SystemLinesDisksHeaderEarly(info, now) ==
    [i \in 1..Len(SystemTags) |-> Line("system", SystemTags[i], 0, <<>>)]
      \o <<UptimeLine(info, now), Line("disks", "=> disks:", 0, <<>>),
           Line("system", "Average CPU Usage:", 0, <<>>)>>

\* Lines 285-296.
SystemLines(info, now) ==
    [i \in 1..Len(SystemTags) |-> Line("system", SystemTags[i], 0, <<>>)]
      \o <<UptimeLine(info, now), Line("system", "Average CPU Usage:", 0, <<>>)>>

PrintSystem ==
    /\ pc = "system_print"
    /\ out' = out \o SystemLines(system_info, clock)
    /\ pc' = "disks"
    /\ UNCHANGED <<nvml_calls, gpu_result, clock, system_info, requests, inflight,
                   response, body, api_response>>

DiskLines(n) == <<Line("disks", "=> disks:", 0, <<>>)>> \o Repeat(<<Line("disks", "disk", 0, <<>>)>>, n)

PrintDisks ==
    /\ pc = "disks"
    /\ out' = out \o DiskLines(system_info.disks)
    /\ pc' = "aux_send"
    /\ UNCHANGED <<nvml_calls, gpu_result, clock, system_info, requests, inflight,
                   response, body, api_response>>

----------------------------------------------------------------------------
(* The two HTTP requests.  The prefixes of lines 328 and 330/401 are       *)
(* written "Request succeeded:" and "Request failed:" here.                *)

\* Faulty variant: redirections count as success.
is_success_not_error(status) == 200 <= status /\ status <= 399

\* StatusCode::is_success
is_success(status) == 200 <= status /\ status <= 299

\* What send().await yields: a transport error, or a response with a status.
SendResults == {[ok |-> FALSE, status |-> 0]} \cup {[ok |-> TRUE, status |-> st] : st \in StatusCodes}

\* What response.text().await yields for the auxiliary request: an error, or
\* the body, which is printed without being looked at.
TextResults == {[ok |-> FALSE], [ok |-> TRUE]}

\* Faulty variant: a transport error does not stop the run.
AfterSendIgnoreErr(result, next) == next

\* .send().await.unwrap() (lines 318-322 and 343-347)
AfterSend(result, next) == IF result.ok THEN next ELSE "panicked"

\* A new async block: a fresh client sends the GET.
Send(endpoint, at, next) ==
    /\ pc = at
    /\ requests' = Append(requests, endpoint)
    /\ inflight' = inflight \cup {endpoint}
    /\ pc' = next
    /\ response' = None
    /\ body' = None
    /\ UNCHANGED <<out, nvml_calls, gpu_result, clock, system_info, api_response>>

Receive(endpoint, at, next) ==
    /\ pc = at
    /\ \E result \in SendResults :
          /\ pc' = AfterSend(result, next)
          /\ response' = result
    /\ inflight' = inflight \ {endpoint}
    /\ UNCHANGED <<out, nvml_calls, gpu_result, clock, system_info, requests, body, api_response>>

StatusLine(sec, status) == Line(sec, "Request failed:", 0, <<status>>)

AuxSend == Send("aux", "aux_send", "aux_await")

AuxReceive == Receive("aux", "aux_await", "aux_status")

\* Faulty variant: a non-2xx answer makes main send the request again.
AuxAfterStatusRetry(status) == IF is_success(status) THEN "city_send" ELSE "aux_send"

\* After the else branch of line 329 the first block_on returns.
AuxAfterStatus(status) == "city_send"

\* Lines 325-331.  response.text() consumes the response, and
\* .await.unwrap() aborts when the body cannot be read.
AuxHandle ==
    /\ pc = "aux_status"
    /\ IF is_success(response.status)
          THEN \E text \in TextResults :
                  /\ body' = text
                  /\ response' = None
                  /\ IF text.ok
                        THEN /\ out' = Append(out, Line("aux", "Request succeeded:", 0, <<>>))
                             /\ pc' = "city_send"
                        ELSE /\ out' = out
                             /\ pc' = "panicked"
          ELSE /\ out' = Append(out, StatusLine("aux", response.status))
               /\ pc' = AuxAfterStatus(response.status)
               /\ UNCHANGED <<response, body>>
    /\ UNCHANGED <<nvml_calls, gpu_result, clock, system_info, requests, inflight,
                   api_response>>

CitySend == Send("city", "city_send", "city_await")

CityReceive == Receive("city", "city_await", "city_status")

----------------------------------------------------------------------------
(* The body of the city-weather response and serde_json::from_str.         *)
(* A body is a JSON text: whether it is complete (not truncated), the      *)
(* fields of its top-level object with their JSON types, and the elements  *)
(* of its "value" array.  Of an element the model keeps whether it has the *)
(* shape of struct Value and the lengths of its three printed lists.       *)

ApiFields == {"code", "message", "redirect", "value"}

\* struct ApiResponse (lines 106-111)
ApiTypes == [f \in ApiFields |-> IF f = "value" THEN "array" ELSE "string"]

CityDocs == {[wellformed |-> TRUE, alarms |-> a, indexes |-> i, weathers |-> w] :
                a \in 0..MaxBlocks, i \in 0..MaxBlocks, w \in 0..MaxBlocks}

RECURSIVE TotalBlocks(_)
TotalBlocks(v) ==
    IF v = <<>> THEN 0
    ELSE v[1].alarms + v[1].indexes + v[1].weathers + TotalBlocks(Tail(v))

ValueArrays ==
    {v \in UNION {[1..n -> CityDocs] : n \in 0..MaxCities} : TotalBlocks(v) <= MaxBlocks}

Doc(complete, top, value) == [ok |-> TRUE, complete |-> complete, top |-> top, value |-> value]

IllFormedCity == [wellformed |-> FALSE, alarms |-> 0, indexes |-> 0, weathers |-> 0]

Bodies ==
    {Doc(TRUE, ApiTypes, v) : v \in ValueArrays}
      \cup {Doc(FALSE, ApiTypes, <<>>)}
      \cup {Doc(TRUE, [f \in ApiFields \ {g} |-> ApiTypes[f]], <<>>) : g \in ApiFields}
      \cup {Doc(TRUE, [ApiTypes EXCEPT ![g] = "number"], <<>>) : g \in ApiFields}
      \cup {Doc(TRUE, ApiTypes, <<IllFormedCity>>)}

Parsed(text) ==
    [ok |-> TRUE,
     value |-> [i \in 1..Len(text.value) |->
                  [alarms |-> text.value[i].alarms, indexes |-> text.value[i].indexes,
                   weathers |-> text.value[i].weathers]]]

\* Faulty variant: a body that does not parse yields an empty report.
from_str_lenient(text) ==
    IF text.complete /\ DOMAIN text.top = ApiFields
          /\ \A f \in ApiFields : text.top[f] = ApiTypes[f]
          /\ \A i \in 1..Len(text.value) : text.value[i].wellformed
       THEN Parsed(text)
       ELSE [ok |-> TRUE, value |-> <<>>]

\* serde_json::from_str::<ApiResponse>: every field of the struct is required
\* and typed; unknown fields are ignored.
from_str(text) ==
    IF text.complete /\ ApiFields \subseteq DOMAIN text.top
          /\ \A f \in ApiFields : text.top[f] = ApiTypes[f]
          /\ \A i \in 1..Len(text.value) : text.value[i].wellformed
       THEN Parsed(text)
       ELSE [ok |-> FALSE, value |-> <<>>]

----------------------------------------------------------------------------
(* The structured report (lines 357-399).                                  *)

Block(tags, c) == [i \in 1..Len(tags) |-> Line("city", tags[i], c, <<>>)]

AlarmBlock(c) ==
    Block(<<"Alarm Content:", "Alarm Description:", "Alarm ID:", "Alarm Level:",
            "Alarm Type:", "Precaution:", "Publish Time:", Separator>>, c)

IndexBlock(c) == Block(<<"Index Name:", "Index Level:", "Index Content:", Separator>>, c)

WeatherBlock(c) ==
    Block(<<"Weather Date:", "Weather:", "Day Temperature:", "Night Temperature:",
            Separator>>, c)

\* Faulty variant: the City lines are printed before the alarm blocks.
ValueLinesCityFirst(v, c) ==
    Block(<<"City:", "City ID:">>, c)
      \o Repeat(AlarmBlock(c), v.alarms)
      \o Repeat(IndexBlock(c), v.indexes)
      \o Block(<<"PM2.5 Quality:", "PM2.5 AQI:", "Province Name:", "Realtime Weather:",
                 "Realtime Temperature:", "Realtime Wind:">>, c)
      \o Repeat(WeatherBlock(c), v.weathers)

\* The body of `for value in response.value`, for the c-th element.
ValueLines(v, c) ==
    Repeat(AlarmBlock(c), v.alarms)
      \o Block(<<"City:", "City ID:">>, c)
      \o Repeat(IndexBlock(c), v.indexes)
      \o Block(<<"PM2.5 Quality:", "PM2.5 AQI:", "Province Name:", "Realtime Weather:",
                 "Realtime Temperature:", "Realtime Wind:">>, c)
      \o Repeat(WeatherBlock(c), v.weathers)

RECURSIVE ValuesFrom(_, _)
ValuesFrom(value, c) ==
    IF c > Len(value) THEN <<>> ELSE ValueLines(value[c], c) \o ValuesFrom(value, c + 1)

ReportLines(resp) == Block(<<"Code:", "Message:", "Redirect:">>, 0) \o ValuesFrom(resp.value, 1)

\* Lines 350-352 and 400-402: the status check and the read of the body.
CityStatus ==
    /\ pc = "city_status"
    /\ IF is_success(response.status)
          THEN /\ \E text \in {[ok |-> FALSE]} \cup Bodies :
                     /\ body' = text
                     /\ pc' = IF text.ok THEN "city_parse" ELSE "panicked"
               /\ response' = None
               /\ out' = out
          ELSE /\ out' = Append(out, StatusLine("city", response.status))
               /\ pc' = "done"
               /\ UNCHANGED <<response, body>>
    /\ UNCHANGED <<nvml_calls, gpu_result, clock, system_info, requests, inflight,
                   api_response>>

\* Lines 355-399: from_str(..).unwrap() and the report.
CityParse ==
    /\ pc = "city_parse"
    /\ LET parsed == from_str(body) IN
          IF parsed.ok
             THEN /\ api_response' = parsed
                  /\ out' = out \o ReportLines(parsed)
                  /\ pc' = "done"
             ELSE /\ api_response' = None
                  /\ out' = out
                  /\ pc' = "panicked"
    /\ UNCHANGED <<nvml_calls, gpu_result, clock, system_info, requests, inflight,
                   response, body>>

----------------------------------------------------------------------------
(* The run of main.                                                        *)

Init ==
    /\ pc = "gpu_call"
    /\ out = <<>>
    /\ nvml_calls = <<>>
    /\ gpu_result = None
    /\ clock \in BootUptimes
    /\ system_info = None
    /\ requests = <<>>
    /\ inflight = {}
    /\ response = None
    /\ body = None
    /\ api_response = None

\* The steps main takes on its own.
MainStep ==
    \/ CallGetGpuInfo
    \/ MatchGpu
    \/ CallGetSystemInfo
    \/ PrintSystem
    \/ PrintDisks
    \/ AuxSend
    \/ AuxHandle
    \/ CitySend
    \/ CityStatus
    \/ CityParse

\* The steps that wait for the network.
NetStep ==
    \/ AuxReceive
    \/ CityReceive

Next == MainStep \/ NetStep

Spec == Init /\ [][Next]_vars

\* main runs on whenever it is not waiting for a response.
FairSpec == Spec /\ WF_vars(MainStep)

----------------------------------------------------------------------------
(* convert_seconds over a range of uptimes: main at line 284, after a      *)
(* failed GPU read, with any uptime up to MaxSeconds in the snapshot.      *)

InitConv ==
    /\ pc = "system_print"
    /\ out = MatchGpuLines([ok |-> FALSE, err |-> "init"])
    /\ nvml_calls = <<>>
    /\ gpu_result = None
    /\ \E s \in 0..MaxSeconds :
          /\ system_info = [uptime |-> s, disks |-> 0]
          /\ clock = s + SleepSecs
    /\ requests = <<>>
    /\ inflight = {}
    /\ response = None
    /\ body = None
    /\ api_response = None

NextConv == PrintSystem

SpecConv == InitConv /\ [][NextConv]_vars

----------------------------------------------------------------------------
(* Vocabulary of the properties.                                           *)

Range(f) == {f[i] : i \in DOMAIN f}

Positions(lines, P(_)) == {i \in DOMAIN lines : P(lines[i])}

IsGpuField(l) == l.sec = "gpu" /\ l.tag \in Range(GpuFieldTags)
IsGpuError(l) == l.sec = "gpu" /\ l.tag = "Error:"
IsAux(l) == l.sec = "aux"
IsCity(l) == l.sec = "city"
IsUptime(l) == l.tag = "Uptime"

GpuFieldCount(lines) == Cardinality(Positions(lines, IsGpuField))
GpuErrorCount(lines) == Cardinality(Positions(lines, IsGpuError))

Aborted == pc = "panicked"

\* The GPU, system and disks blocks are complete in out.
LocalBlocksPrinted ==
    /\ GpuFieldCount(out) = 10 \/ GpuErrorCount(out) = 1
    /\ \A t \in Range(SystemTags) \cup {"Uptime", "Average CPU Usage:"} :
          \E i \in DOMAIN out : out[i].sec = "system" /\ out[i].tag = t
    /\ \E i \in DOMAIN out : out[i].sec = "disks" /\ out[i].tag = "=> disks:"

Non2xx(status) == status < 200 \/ status > 299

----------------------------------------------------------------------------
(* C1: whenever get_gpu_info fails, at whichever sub-query, main prints    *)
(* exactly one "Error:" line for the GPU and no other GPU line, does not   *)
(* abort there, and goes on to read the host telemetry and to send the     *)
(* first weather request.                                                  *)

GpuReadFailed == pc = "gpu_match" /\ ~gpu_result.ok

C1_GpuFailureIsReportedAndRunContinues ==
    /\ [][GpuReadFailed =>
            /\ out' = Append(out, Line("gpu", "Error:", 0, <<>>))
            /\ ~Aborted']_vars
    /\ [](GpuErrorCount(out) <= 1)
    /\ [][GpuErrorCount(out) = 1 => GpuErrorCount(out') = 1]_vars
    /\ GpuReadFailed ~>
          (/\ GpuErrorCount(out) = 1
           /\ system_info # None
           /\ requests # <<>> /\ requests[1] = "aux")

C1_Witness ==
    /\ GpuErrorCount(out) = 1
    /\ system_info # None
    /\ requests = <<"aux">>

----------------------------------------------------------------------------
(* C2: the GPU read is all-or-nothing.  If any sub-query made by           *)
(* get_gpu_info failed, the result is an error and no GPU field line is    *)
(* printed in the run; the ten field lines are printed, by the match and   *)
(* nowhere else, exactly when all eleven sub-queries succeeded.            *)

SomeQueryFailed == \E i \in DOMAIN nvml_calls : ~nvml_calls[i].ok

AllQueriesSucceeded ==
    /\ [i \in DOMAIN nvml_calls |-> nvml_calls[i].query] = GpuQueries
    /\ \A i \in DOMAIN nvml_calls : nvml_calls[i].ok

C2_GpuReadAllOrNothing ==
    /\ [][pc = "gpu_match" =>
            /\ SomeQueryFailed <=> ~AllQueriesSucceeded
            /\ SomeQueryFailed => ~gpu_result.ok /\ GpuFieldCount(out') = 0
            /\ AllQueriesSucceeded => gpu_result.ok /\ GpuFieldCount(out') = 10]_vars
    /\ [][pc # "gpu_match" => GpuFieldCount(out') = GpuFieldCount(out)]_vars
    /\ [](GpuFieldCount(out) \in {0, 10})

C2_Witness ==
    /\ pc = "gpu_match"
    /\ Len(nvml_calls) = 6
    /\ ~nvml_calls[6].ok
    /\ ~gpu_result.ok

----------------------------------------------------------------------------
(* C3: a non-2xx response to either request is recovered locally.  Only    *)
(* the status line is printed for that request, no body is read or parsed, *)
(* nothing aborts; after a non-2xx auxiliary response the city-weather     *)
(* request is still sent, and after a non-2xx city-weather response the    *)
(* run ends normally with no line of the structured report.                *)

AuxNon2xx == pc = "aux_status" /\ Non2xx(response.status)
CityNon2xx == pc = "city_status" /\ Non2xx(response.status)

StructuredLines(lines) == Positions(lines, LAMBDA l : IsCity(l) /\ l.tag # "Request failed:")

C3_Non2xxIsRecoveredLocally ==
    /\ [][AuxNon2xx =>
            /\ out' = Append(out, Line("aux", "Request failed:", 0, <<response.status>>))
            /\ body' = None
            /\ pc' = "city_send"]_vars
    /\ [][CityNon2xx =>
            /\ out' = Append(out, Line("city", "Request failed:", 0, <<response.status>>))
            /\ body' = None /\ api_response' = None
            /\ StructuredLines(out') = {}
            /\ pc' = "done"]_vars
    /\ AuxNon2xx ~> (requests = <<"aux", "city">>)

C3_Witness ==
    /\ pc = "done"
    /\ \E i \in DOMAIN out : IsAux(out[i]) /\ out[i].tag = "Request failed:" /\ out[i].args = <<404>>
    /\ \E i \in DOMAIN out : IsCity(out[i]) /\ out[i].tag = "Request failed:" /\ out[i].args = <<300>>
    /\ StructuredLines(out) = {}

----------------------------------------------------------------------------
(* C4: a 2xx city-weather response whose body does not parse into          *)
(* ApiResponse (truncated, a required field missing or of the wrong type,  *)
(* an ill-formed element of value) aborts the process, and no line of the  *)
(* structured report is printed, not even "Code:".                         *)

ParsesIntoApiResponse(text) ==
    /\ text.complete
    /\ \A f \in {"code", "message", "redirect"} :
          f \in DOMAIN text.top /\ text.top[f] = "string"
    /\ "value" \in DOMAIN text.top /\ text.top["value"] = "array"
    /\ \A i \in DOMAIN text.value : text.value[i].wellformed

UnparseableBody == pc = "city_parse" /\ ~ParsesIntoApiResponse(body)

C4_UnparseableBodyIsFatal ==
    /\ [][UnparseableBody => Aborted' /\ out' = out /\ api_response' = None]_vars
    /\ [][pc' = "city_parse" /\ pc # "city_parse" =>
            pc = "city_status" /\ ~Non2xx(response.status)]_vars
    /\ [](pc = "city_parse" => StructuredLines(out) = {})
    /\ [](Aborted => StructuredLines(out) = {})

C4_Witness ==
    /\ Aborted
    /\ requests = <<"aux", "city">>
    /\ body # None /\ body.ok /\ body.complete /\ "value" \notin DOMAIN body.top
    /\ StructuredLines(out) = {}

----------------------------------------------------------------------------
(* C5: a transport-level failure of a request is fatal.  When the          *)
(* auxiliary request fails the process aborts, the city-weather request is *)
(* never sent and no weather line is printed; when the city-weather        *)
(* request fails the process aborts with no structured line printed.  The  *)
(* GPU, system and disks blocks have been printed before the abort.        *)

TransportFailed == (response # None /\ ~response.ok) \/ (body # None /\ ~body.ok)

C5_TransportFailureIsFatal ==
    /\ [](TransportFailed => Aborted /\ LocalBlocksPrinted /\ StructuredLines(out) = {})
    /\ [](TransportFailed /\ requests = <<"aux">> =>
             Positions(out, IsAux) = {} /\ Positions(out, IsCity) = {})
    /\ [][Aborted => Aborted' /\ requests' = requests /\ out' = out]_vars

C5_Witness ==
    /\ Aborted
    /\ requests = <<"aux", "city">>
    /\ response # None /\ ~response.ok
    /\ LocalBlocksPrinted

----------------------------------------------------------------------------
(* C6: the sections of the output appear in the fixed order GPU, system,   *)
(* disks, auxiliary weather, city weather, whichever branch each takes.    *)

SectionRank(sec) ==
    CASE sec = "gpu" -> 1
      [] sec = "system" -> 2
      [] sec = "disks" -> 3
      [] sec = "aux" -> 4
      [] sec = "city" -> 5

\* Non-decreasing from each line to the next, hence over every pair of lines.
C6_SectionsInFixedOrder ==
    \A i \in 1..(Len(out) - 1) : SectionRank(out[i].sec) <= SectionRank(out[i + 1].sec)

C6_Witness ==
    /\ pc = "done"
    /\ {out[i].sec : i \in DOMAIN out} = {"gpu", "system", "disks", "aux", "city"}
    /\ GpuErrorCount(out) = 1
    /\ StructuredLines(out) # {}

----------------------------------------------------------------------------
(* C7: the decomposition printed for an uptime of s seconds is             *)
(* (s/86400, (s/3600)%24, (s/60)%60, s%60); it adds up to s, with hours    *)
(* below 24 and minutes and seconds below 60; 0 gives (0,0,0,0) and 90061  *)
(* gives (1,1,1,1).                                                        *)

\* The (days, hours, minutes, seconds) printed on the uptime line.
PrintedDhms(l) == SubSeq(l.args, 2, 5)

C7_ConvertSecondsIsExact ==
    \A i \in Positions(out, IsUptime) :
        LET s == system_info.uptime
            dhms == PrintedDhms(out[i])
        IN  /\ dhms = <<s \div 86400, (s \div 3600) % 24, (s \div 60) % 60, s % 60>>
            /\ dhms[1] * 86400 + dhms[2] * 3600 + dhms[3] * 60 + dhms[4] = s
            /\ dhms[1] >= 0
            /\ 0 <= dhms[2] /\ dhms[2] < 24
            /\ 0 <= dhms[3] /\ dhms[3] < 60
            /\ 0 <= dhms[4] /\ dhms[4] < 60
            /\ s = 0 => dhms = <<0, 0, 0, 0>>
            /\ s = 90061 => dhms = <<1, 1, 1, 1>>

C7_Witness ==
    /\ system_info # None /\ system_info.uptime = 90061
    /\ \E i \in Positions(out, IsUptime) : PrintedDhms(out[i]) = <<1, 1, 1, 1>>

----------------------------------------------------------------------------
(* C8: the two GETs are sent one after the other and never retried: each   *)
(* endpoint is requested at most once, the auxiliary one first; the        *)
(* city-weather request is sent only once the auxiliary response has been  *)
(* handled, its body or status line printed; at most one request is in     *)
(* flight at any time.                                                     *)

C8_RequestsSequentialNoRetry ==
    /\ requests \in {<<>>, <<"aux">>, <<"aux", "city">>}
    /\ Cardinality(inflight) <= 1
    /\ inflight \subseteq (IF requests = <<>> THEN {} ELSE {requests[Len(requests)]})
    /\ "city" \in Range(requests) =>
          /\ "aux" \notin inflight
          /\ Cardinality(Positions(out, IsAux)) = 1

C8_Witness ==
    /\ requests = <<"aux", "city">>
    /\ inflight = {"city"}
    /\ \E i \in DOMAIN out : IsAux(out[i]) /\ out[i].tag = "Request failed:"

----------------------------------------------------------------------------
(* C9: on a parsed city-weather response the cities are reported one at a  *)
(* time in array order, and within a city the order is: alarm blocks, the  *)
(* City / City ID lines, index blocks, the PM2.5 lines, the province and   *)
(* realtime lines, forecast blocks.  The numbers of alarm, index and       *)
(* forecast blocks, each ended by one separator line, are the lengths of   *)
(* the city's alarms, indexes and weathers lists.                          *)

AlarmTags == {"Alarm Content:", "Alarm Description:", "Alarm ID:", "Alarm Level:",
              "Alarm Type:", "Precaution:", "Publish Time:"}
IndexTags == {"Index Name:", "Index Level:", "Index Content:"}
ForecastTags == {"Weather Date:", "Weather:", "Day Temperature:", "Night Temperature:"}

Phase(tag) ==
    IF tag \in AlarmTags THEN 1
    ELSE IF tag \in {"City:", "City ID:"} THEN 2
    ELSE IF tag \in IndexTags THEN 3
    ELSE IF tag \in {"PM2.5 Quality:", "PM2.5 AQI:"} THEN 4
    ELSE IF tag \in {"Province Name:", "Realtime Weather:", "Realtime Temperature:",
                     "Realtime Wind:"} THEN 5
    ELSE IF tag \in ForecastTags THEN 6
    ELSE 0

\* A separator belongs to the block of the line it follows.
PhaseAt(lines, k) ==
    IF lines[k].tag # Separator THEN Phase(lines[k].tag)
    ELSE IF k = 1 THEN 0
    ELSE Phase(lines[k - 1].tag)

BlocksEnded(lines, phase) ==
    Cardinality({k \in DOMAIN lines : lines[k].tag = Separator /\ PhaseAt(lines, k) = phase})

TagCount(lines, tag) == Cardinality({k \in DOMAIN lines : lines[k].tag = tag})

CityReportInOrder(lines, v) ==
    /\ \A k \in DOMAIN lines : PhaseAt(lines, k) # 0
    /\ \A k \in 1..(Len(lines) - 1) : PhaseAt(lines, k) <= PhaseAt(lines, k + 1)
    /\ BlocksEnded(lines, 1) = v.alarms /\ TagCount(lines, "Alarm Content:") = v.alarms
    /\ BlocksEnded(lines, 3) = v.indexes /\ TagCount(lines, "Index Name:") = v.indexes
    /\ BlocksEnded(lines, 6) = v.weathers /\ TagCount(lines, "Weather Date:") = v.weathers
    /\ TagCount(lines, Separator) = v.alarms + v.indexes + v.weathers
    /\ \A t \in {"City:", "City ID:", "PM2.5 Quality:", "PM2.5 AQI:", "Province Name:",
                 "Realtime Weather:", "Realtime Temperature:", "Realtime Wind:"} :
          TagCount(lines, t) = 1

C9_CitiesInArrayOrderBlocksInFixedOrder ==
    (pc = "done" /\ api_response # None) =>
        LET report == SelectSeq(out, IsCity)
            cities == DOMAIN api_response.value
        IN  /\ Len(report) >= 3
            /\ [k \in 1..3 |-> report[k].tag] = <<"Code:", "Message:", "Redirect:">>
            /\ \A k \in DOMAIN report : report[k].city = 0 <=> k <= 3
            /\ {report[k].city : k \in DOMAIN report} \ {0} = cities
            /\ \A k \in 1..(Len(report) - 1) : report[k].city <= report[k + 1].city
            /\ \A c \in cities :
                  LET lines == SelectSeq(report, LAMBDA l : l.city = c)
                  IN  CityReportInOrder(lines, api_response.value[c])

C9_Witness ==
    /\ pc = "done" /\ api_response # None
    /\ Len(api_response.value) = 2
    /\ api_response.value[1].alarms = 1
    /\ api_response.value[2].weathers = 1

----------------------------------------------------------------------------
(* C10: the uptime line is self-consistent: the seconds it prints are the  *)
(* uptime captured in the host snapshot, and so equal the days, hours,     *)
(* minutes and seconds printed on the same line added up.                  *)

C10_UptimeLineSelfConsistent ==
    \A i \in Positions(out, IsUptime) :
        LET printed == out[i].args[1]
            dhms == PrintedDhms(out[i])
        IN  /\ printed = system_info.uptime
            /\ printed = dhms[1] * 86400 + dhms[2] * 3600 + dhms[3] * 60 + dhms[4]

====
